---- MODULE Spec2Model ----
(***************************************************************************)
(* Model of instavideosplitter.py: trim_video_to_parts plans the parts of  *)
(* a video, submits one export_and_pad job per part whose output file does *)
(* not exist yet to a ThreadPoolExecutor of MAX_WORKERS threads, and then  *)
(* consumes the futures with as_completed.                                 *)
(*                                                                         *)
(* Times are integers in one common unit (a tick).  The tolerance 1.1 of   *)
(* the last part is the fraction TolNum / TolDen.                          *)
(***************************************************************************)
EXTENDS Integers, Sequences, FiniteSets, TLC

\* ---------------------------------------------------------------- constants
MAX_WORKERS == 4
TolNum == 11
TolDen == 10

\* ------------------------------------------------------------------- bounds
\* Spec (the whole run): durations 1..MaxDuration with segments of PoolSegment.
MaxDuration == 9
\* Number of runs of trim_video_to_parts on the same inputs and directory.
MaxRuns == 2
\* SpecPlan (the planning loop): durations 1..MaxPlanDuration, offsets
\* -MaxOffset..MaxOffset.
MaxPlanDuration == 26
MaxOffset == 2
\* SpecAnySegment: also the segment durations -MaxNegative..0.
MaxNegative == 2
\* SpecKeyframe: times 0..MaxTime, lists of at most MaxKeyframes keyframes.
MaxTime == 4
MaxKeyframes == 3

VARIABLES
    videoDuration,      \* video.duration
    segmentDuration,    \* segment_duration
    offset,             \* offset
    keyframes,          \* the list get_keyframes returned
    askMode,            \* ask_allow_long_last_part: "absent", "yes" or "no"
    files,              \* part number -> what <base_name>-part<n>.mp4 holds
    filesAtStart,       \* history: files as the current run found them
    pc,                 \* position of the coordinating thread
    numParts,           \* num_parts
    i,                  \* loop variable of the planning loop
    plans,              \* history: the plan computed by each iteration
    askCalls,           \* history: the arguments ask_allow_long_last_part got
    tasks,              \* the list tasks, as part numbers in submit order
    queue,              \* the executor's work queue
    numThreads,         \* worker threads the executor has started
    job,                \* part number -> state and result of its future
    yielded,            \* part number -> times as_completed yielded its future
    completedParts,     \* completed_parts
    returned,           \* value returned to the caller, None before
    run,                \* number of the current run
    prevReturned,       \* value the previous run returned, None in run 1
    progressGiven,      \* whether progress_callback was passed
    progressCalls,      \* history: the arguments progress_callback got
    padFailedBefore,    \* history: parts an earlier run reported failed in padding
    time,               \* SpecKeyframe: argument of adjust_to_keyframe
    adjusted            \* SpecKeyframe: its result, None before the call

vars == <<videoDuration, segmentDuration, offset, keyframes, askMode, files,
          filesAtStart, pc,
          numParts, i, plans, askCalls, tasks, queue, numThreads, job, yielded,
          completedParts, returned, run, prevReturned, progressGiven,
          progressCalls, padFailedBefore, time, adjusted>>

inputVars == <<videoDuration, segmentDuration, offset, keyframes, askMode,
               filesAtStart, progressGiven>>
poolVars == <<queue, numThreads, job>>
kfVars == <<time, adjusted>>
histVars == <<progressCalls, padFailedBefore>>

None == "None"

\* ------------------------------------------------------------ pure helpers
Abs(x) == IF x < 0 THEN -x ELSE x
Min2(a, b) == IF a < b THEN a ELSE b
Max2(a, b) == IF a > b THEN a ELSE b

\* Python's // and % (floor division; the remainder has the divisor's sign).
PyFloorDiv(a, b) == a \div b
PyMod(a, b) == a - b * (a \div b)

\* min(keyframes, key=...) scans the list and keeps the first smallest key.
RECURSIVE MinByKey(_, _, _, _)
MinByKey(t, kfs, k, best) ==
    IF k > Len(kfs) THEN best
    ELSE MinByKey(t, kfs, k + 1,
                  IF Abs(kfs[k] - t) < Abs(best - t) THEN kfs[k] ELSE best)

\* Variant of adjust_to_keyframe that keeps the last smallest key (<= for <).
RECURSIVE MinByKeyLast(_, _, _, _)
MinByKeyLast(t, kfs, k, best) ==
    IF k > Len(kfs) THEN best
    ELSE MinByKeyLast(t, kfs, k + 1,
                      IF Abs(kfs[k] - t) <= Abs(best - t) THEN kfs[k] ELSE best)

adjust_to_keyframe_last(t, kfs) ==
    IF kfs = <<>> THEN t ELSE MinByKeyLast(t, kfs, 2, kfs[1])
\* adjust_to_keyframe (lines 95-110).
adjust_to_keyframe(t, kfs) ==
    IF kfs = <<>> THEN t ELSE MinByKey(t, kfs, 2, kfs[1])

\* Variant of NumParts without the extra part for the remainder.
NumPartsFloor(dur, seg) == PyFloorDiv(dur, seg)
\* num_parts of lines 209-211 (segment_duration # 0).
NumParts(dur, seg) ==
    PyFloorDiv(dur, seg) + (IF PyMod(dur, seg) # 0 THEN 1 ELSE 0)

\* part_start of lines 225-227.
PartStart(k, dur, seg, off, kfs) ==
    Max2(0, Min2(adjust_to_keyframe(k * seg, kfs) + off, dur))

\* part_end of line 228.
PartEnd(start, dur, seg) == Min2(start + seg, dur)

\* Variant of SmallOvershoot without the upper limit of the tolerance.
SmallOvershootAny(al, seg) == al > seg
\* segment_duration < actual_length <= segment_duration * 1.1 (line 236).
SmallOvershoot(al, seg) == al > seg /\ al * TolDen <= seg * TolNum

\* Variant of PadTime that never pads.
PadTimeNone(al, seg) == 0
\* pad_time of the last part (lines 232-235).
PadTime(al, seg) == IF al < seg THEN seg - al ELSE 0

\* Whether line 237 calls ask_allow_long_last_part(actual_length).
AskInvoked(al, seg, ask) ==
    al >= seg /\ SmallOvershoot(al, seg) /\ ask # "absent"

\* Whether line 238 runs: the callback was given and returned true.
Elongated(al, seg, ask) == AskInvoked(al, seg, ask) /\ ask = "yes"

\* part_end of the last part (lines 228, 236-242): line 228's value when
\* actual_length < segment_duration, else video_duration or the clamped end.
LastPartEnd(start, dur, seg, ask) ==
    LET al == dur - start
    IN  IF al < seg THEN PartEnd(start, dur, seg)
        ELSE IF Elongated(al, seg, ask) THEN dur
        ELSE Min2(start + seg, dur)

\* The plan of iteration k (lines 225-244): start, end, pad_time, whether the
\* callback was called and whether the part was elongated to video_duration.
PlanOf(k, n, dur, seg, off, kfs, ask) ==
    LET start == PartStart(k, dur, seg, off, kfs)
        al    == dur - start
    IN  IF k = n - 1
        THEN [part |-> k + 1, start |-> start,
              end |-> LastPartEnd(start, dur, seg, ask),
              pad |-> PadTime(al, seg),
              asked |-> AskInvoked(al, seg, ask),
              elongated |-> Elongated(al, seg, ask)]
        ELSE [part |-> k + 1, start |-> start,
              end |-> PartEnd(start, dur, seg),
              pad |-> 0, asked |-> FALSE, elongated |-> FALSE]

\* ------------------------------------------------------------------ inputs
Range(s) == {s[k] : k \in 1..Len(s)}

\* The part numbers a run can name: 1..num_parts.
PartIds(dur, seg) == IF seg = 0 THEN {} ELSE 1..NumParts(dur, seg)

\* Spec: few ticks per segment, so that a run has more parts than workers.
PoolSegment == 2
PoolInputs ==
    {[dur |-> d, seg |-> PoolSegment, off |-> 0, kfs |-> <<>>, ask |-> "absent"] :
        d \in 1..MaxDuration}

\* SpecAnySegment: the caller may also pass a segment_duration <= 0.
NonPositiveInputs ==
    {[dur |-> d, seg |-> g, off |-> 0, kfs |-> <<>>, ask |-> "absent"] :
        d \in 1..MaxDuration, g \in (-MaxNegative)..0}

\* SpecPlan: ten ticks per segment, so that the 1.1 tolerance has a case.
PlanSegment == 10
KeyTimes == {0} \cup {t \in 0..MaxPlanDuration : t % 5 = 4}
PlanKeyframeLists ==
    {<<>>} \cup {<<a>> : a \in KeyTimes}
           \cup {ab \in KeyTimes \X KeyTimes : ab[1] < ab[2]}
PlanScenarios ==
    {[dur |-> 125, seg |-> 60, off |-> 0, kfs |-> <<>>, ask |-> a] :
        a \in {"absent", "yes", "no"}}
    \cup {[dur |-> 60, seg |-> 60, off |-> 0, kfs |-> <<>>, ask |-> "absent"],
          [dur |-> 125, seg |-> 60, off |-> 0, kfs |-> <<0, 60>>, ask |-> "no"]}
PlanInputs ==
    {[dur |-> d, seg |-> PlanSegment, off |-> o, kfs |-> k, ask |-> a] :
        d \in 1..MaxPlanDuration, o \in (-MaxOffset)..MaxOffset,
        k \in PlanKeyframeLists, a \in {"absent", "yes", "no"}}
    \cup PlanScenarios

RECURSIVE SeqsUpTo(_, _)
SeqsUpTo(S, n) ==
    IF n = 0 THEN {<<>>}
    ELSE LET shorter == SeqsUpTo(S, n - 1)
         IN  shorter \cup {Append(s, x) : s \in shorter, x \in S}

\* ------------------------------------------------------------------- Init
\* state and result (success, error) of a future; exc is the exception behind
\* the error text, padRan whether export_and_pad called pad_with_black.
NoJob == [state |-> "none", success |-> None, error |-> None, exc |-> None,
          padRan |-> FALSE]

InitState(inp, fs, start, t) ==
    /\ videoDuration = inp.dur
    /\ segmentDuration = inp.seg
    /\ offset = inp.off
    /\ keyframes = inp.kfs
    /\ askMode = inp.ask
    /\ files = fs
    /\ filesAtStart = fs
    /\ pc = start
    /\ numParts = None
    /\ i = 0
    /\ plans = <<>>
    /\ askCalls = <<>>
    /\ tasks = <<>>
    /\ queue = <<>>
    /\ numThreads = 0
    /\ job = [p \in DOMAIN fs |-> NoJob]
    /\ yielded = [p \in DOMAIN fs |-> 0]
    /\ completedParts = 0
    /\ returned = None
    /\ run = 1
    /\ prevReturned = None
    /\ time = t
    /\ adjusted = None

\* progress_callback is passed or not; nothing was called or reported yet.
InitHistory(given) ==
    /\ progressGiven = given
    /\ progressCalls = <<>>
    /\ padFailedBefore = {}

\* The output directory before the first run: no output exists, or all do
\* (later runs find the subsets that failed exports leave behind).  The caller
\* passes progress_callback, as run_trimming of the GUI does.
Init ==
    \E inp \in PoolInputs :
        \E f \in {"none", "old"} :
            /\ InitState(inp, [p \in PartIds(inp.dur, inp.seg) |-> f],
                         "start", None)
            /\ InitHistory(TRUE)

\* As Init, with any segment_duration, positive or not.
InitAnySegment ==
    \E inp \in PoolInputs \cup NonPositiveInputs :
        \E f \in {"none", "old"} :
            /\ InitState(inp, [p \in PartIds(inp.dur, inp.seg) |-> f],
                         "start", None)
            /\ InitHistory(TRUE)

\* As Init, with progress_callback passed or left at its default None.
InitProgress ==
    \E inp \in PoolInputs :
        \E f \in {"none", "old"} :
            \E g \in BOOLEAN :
                /\ InitState(inp, [p \in PartIds(inp.dur, inp.seg) |-> f],
                             "start", None)
                /\ InitHistory(g)

\* The planning loop: the outputs either all exist or all are missing.
InitPlan ==
    \E inp \in PlanInputs :
        \E f \in {"none", "old"} :
            /\ InitState(inp, [p \in PartIds(inp.dur, inp.seg) |-> f],
                         "start", None)
            /\ InitHistory(TRUE)

\* One call adjust_to_keyframe(time, keyframes), the list in any stored order.
InitKeyframe ==
    \E t \in 0..MaxTime :
        \E kfs \in SeqsUpTo(0..MaxTime, MaxKeyframes) :
            /\ InitState([dur |-> MaxTime, seg |-> 1, off |-> 0, kfs |-> kfs,
                          ask |-> "absent"],
                         [p \in {} |-> "none"], "adjust", t)
            /\ InitHistory(FALSE)

\* ---------------------------------------------------------------- actions
\* Variant of OutputExists that finds no file.
OutputExistsNever(p) == FALSE
\* os.path.exists(output_path), line 249.
OutputExists(p) == files[p] # "none"

\* Jobs a worker thread is running (inside export_and_pad).
InFlight == {p \in DOMAIN job : job[p].state \in {"cutting", "padding"}}

\* Lines 198-219: load the video, count the parts.  A segment_duration of 0
\* raises ZeroDivisionError at line 209, re-raised by lines 276-278.
TrimStart ==
    /\ pc = "start"
    /\ IF segmentDuration = 0
       THEN /\ pc' = "raised"
            /\ UNCHANGED <<numParts, i>>
       ELSE /\ numParts' = NumParts(videoDuration, segmentDuration)
            /\ i' = 0
            /\ pc' = IF numParts' > 0 THEN "plan" ELSE "collect"
    /\ UNCHANGED <<inputVars, files, plans, askCalls, tasks, poolVars, yielded,
                   completedParts, returned, run, prevReturned, kfVars, histVars>>

\* Variant of Submit that starts a thread for every work item.
SubmitUnbounded(p) ==
    /\ tasks' = Append(tasks, p)
    /\ queue' = Append(queue, p)
    /\ job' = [job EXCEPT ![p].state = "queued"]
    /\ numThreads' = numThreads + 1
\* executor.submit (line 253): the future joins tasks, the work item joins the
\* queue, and the executor starts a thread while it has fewer than max_workers.
Submit(p) ==
    /\ tasks' = Append(tasks, p)
    /\ queue' = Append(queue, p)
    /\ job' = [job EXCEPT ![p].state = "queued"]
    /\ numThreads' = IF numThreads < MAX_WORKERS THEN numThreads + 1
                     ELSE numThreads

\* One iteration of the loop of lines 224-253.
PlanPart ==
    /\ pc = "plan"
    /\ i < numParts
    /\ LET plan == PlanOf(i, numParts, videoDuration, segmentDuration, offset,
                          keyframes, askMode)
           skip == OutputExists(plan.part)
       IN  /\ plans' = Append(plans, plan @@ [skipped |-> skip])
           /\ askCalls' = IF plan.asked
                          THEN Append(askCalls, videoDuration - plan.start)
                          ELSE askCalls
           /\ IF skip
              THEN UNCHANGED <<tasks, poolVars>>
              ELSE Submit(plan.part)
    /\ i' = i + 1
    /\ pc' = IF i + 1 < numParts THEN "plan" ELSE "collect"
    /\ UNCHANGED <<inputVars, files, numParts, yielded, completedParts, returned,
                   run, prevReturned, kfVars, histVars>>

\* A worker thread takes the oldest work item and calls export_and_pad, which
\* starts export_part (line 175).
WorkerTake(p) ==
    /\ queue # <<>>
    /\ p = Head(queue)
    /\ Cardinality(InFlight) < numThreads
    /\ queue' = Tail(queue)
    /\ job' = [job EXCEPT ![p].state = "cutting"]
    /\ UNCHANGED <<inputVars, files, pc, numParts, i, plans, askCalls, tasks,
                   numThreads, yielded, completedParts, returned, run,
                   prevReturned, kfVars, histVars>>

\* What export_part's subprocess can do: exit 0 with the cut written, or exit
\* non-zero (CalledProcessError) with no file or a partial file left.
CutOutcomes == {"ok", "failed", "failed_partial"}

\* export_part returns (lines 132-136) and export_and_pad goes on (176-180).
ExportPartExit(p, outcome) ==
    /\ job[p].state = "cutting"
    /\ files' = [files EXCEPT ![p] = CASE outcome = "ok" -> "cut"
                                       [] outcome = "failed" -> "none"
                                       [] outcome = "failed_partial" -> "partial"]
    /\ job' = [job EXCEPT ![p] =
                 IF outcome = "ok"
                 THEN IF plans[p].pad > 0
                      THEN [NoJob EXCEPT !.state = "padding"]
                      ELSE [NoJob EXCEPT !.state = "finished", !.success = TRUE]
                 ELSE [NoJob EXCEPT !.state = "finished", !.success = FALSE,
                                    !.error = "cut",
                                    !.exc = "CalledProcessError"]]
    /\ UNCHANGED <<inputVars, pc, numParts, i, plans, askCalls, tasks, queue,
                   numThreads, yielded, completedParts, returned, run,
                   prevReturned, kfVars, histVars>>

\* Variant of pad_with_black that encodes the padded clip straight onto the
\* target before it fails.
pad_with_black_in_place(content) ==
    [ok |-> FALSE, exc |-> "NameError", content |-> "padded"]

\* Variant of pad_with_black that removes the target when padding fails.
pad_with_black_cleanup(content) ==
    [ok |-> FALSE, exc |-> "NameError", content |-> "none"]

\* pad_with_black (lines 138-171): the module defines none of PRESET, THREADS,
\* AUDIO_CHANNELS, so evaluating the arguments of write_videofile raises
\* NameError (if VideoFileClip did not raise before); the except clause returns
\* (False, str(e)).  Neither the temporary file nor the target is written.
pad_with_black(content) == [ok |-> FALSE, exc |-> "NameError", content |-> content]

\* pad_with_black returns and export_and_pad returns (lines 177-180).
PadWithBlackExit(p) ==
    /\ job[p].state = "padding"
    /\ LET r == pad_with_black(files[p])
       IN  /\ files' = [files EXCEPT ![p] = r.content]
           /\ job' = [job EXCEPT ![p] =
                        IF r.ok
                        THEN [NoJob EXCEPT !.state = "finished", !.success = TRUE,
                                           !.padRan = TRUE]
                        ELSE [NoJob EXCEPT !.state = "finished", !.success = FALSE,
                                           !.error = "pad", !.exc = r.exc,
                                           !.padRan = TRUE]]
    /\ UNCHANGED <<inputVars, pc, numParts, i, plans, askCalls, tasks, queue,
                   numThreads, yielded, completedParts, returned, run,
                   prevReturned, kfVars, histVars>>

\* Variant of Pending that lets a future be yielded a second time.
PendingAgain(p) == p \in Range(tasks) /\ yielded[p] < 2
\* as_completed yields each future of tasks once, when it has finished.
Pending(p) == p \in Range(tasks) /\ yielded[p] = 0

\* Variant of AsCompletedNext that reports the number of submitted jobs as total.
AsCompletedTotalSubmitted(p) ==
    /\ pc = "collect"
    /\ Pending(p)
    /\ job[p].state = "finished"
    /\ yielded' = [yielded EXCEPT ![p] = @ + 1]
    /\ completedParts' = completedParts + 1
    /\ progressCalls' = IF progressGiven
                        THEN Append(progressCalls, <<completedParts', Len(tasks)>>)
                        ELSE progressCalls
    /\ UNCHANGED <<inputVars, files, pc, numParts, i, plans, askCalls, tasks,
                   poolVars, returned, run, prevReturned, kfVars,
                   padFailedBefore>>
\* Variant of AsCompletedNext that raises when the result is a failure.
AsCompletedRaise(p) ==
    /\ pc = "collect"
    /\ Pending(p)
    /\ job[p].state = "finished"
    /\ yielded' = [yielded EXCEPT ![p] = @ + 1]
    /\ completedParts' = completedParts + 1
    /\ progressCalls' = IF progressGiven
                        THEN Append(progressCalls, <<completedParts', numParts>>)
                        ELSE progressCalls
    /\ pc' = IF job[p].success THEN pc ELSE "raised"
    /\ UNCHANGED <<inputVars, files, numParts, i, plans, askCalls, tasks,
                   poolVars, returned, run, prevReturned, kfVars,
                   padFailedBefore>>
\* One iteration of the loop of lines 257-265.
AsCompletedNext(p) ==
    /\ pc = "collect"
    /\ Pending(p)
    /\ job[p].state = "finished"
    /\ yielded' = [yielded EXCEPT ![p] = @ + 1]
    /\ completedParts' = completedParts + 1
    /\ progressCalls' = IF progressGiven
                        THEN Append(progressCalls, <<completedParts', numParts>>)
                        ELSE progressCalls
    /\ UNCHANGED <<inputVars, files, pc, numParts, i, plans, askCalls, tasks,
                   poolVars, returned, run, prevReturned, kfVars,
                   padFailedBefore>>

\* as_completed is exhausted; the executor shuts down; lines 267-268.
TrimReturn ==
    /\ pc = "collect"
    /\ \A p \in Range(tasks) : ~Pending(p)
    /\ pc' = "done"
    /\ returned' = numParts
    /\ UNCHANGED <<inputVars, files, numParts, i, plans, askCalls, tasks, poolVars,
                   yielded, completedParts, run, prevReturned, kfVars, histVars>>

\* The caller runs trim_video_to_parts again on the same inputs and directory.
Rerun ==
    /\ pc = "done"
    /\ run < MaxRuns
    /\ run' = run + 1
    /\ prevReturned' = returned
    /\ pc' = "start"
    /\ numParts' = None
    /\ i' = 0
    /\ plans' = <<>>
    /\ askCalls' = <<>>
    /\ tasks' = <<>>
    /\ queue' = <<>>
    /\ numThreads' = 0
    /\ job' = [p \in DOMAIN job |-> NoJob]
    /\ yielded' = [p \in DOMAIN yielded |-> 0]
    /\ completedParts' = 0
    /\ returned' = None
    /\ filesAtStart' = files
    /\ progressCalls' = <<>>
    /\ padFailedBefore' =
          padFailedBefore \cup {p \in DOMAIN job : job[p].error = "pad"}
    /\ UNCHANGED <<videoDuration, segmentDuration, offset, keyframes, askMode,
                   progressGiven, files, kfVars>>

\* The call of SpecKeyframe.
AdjustCall ==
    /\ pc = "adjust"
    /\ adjusted' = adjust_to_keyframe(time, keyframes)
    /\ pc' = "adjusted"
    /\ UNCHANGED <<inputVars, files, numParts, i, plans, askCalls, tasks, poolVars,
                   yielded, completedParts, returned, run, prevReturned, time,
                   histVars>>

\* ----------------------------------------------------------- specifications
WorkerStep ==
    \/ \E p \in DOMAIN job : WorkerTake(p)
    \/ \E p \in DOMAIN job : \E o \in CutOutcomes : ExportPartExit(p, o)
    \/ \E p \in DOMAIN job : PadWithBlackExit(p)

CoordinatorStep ==
    \/ TrimStart
    \/ PlanPart
    \/ \E p \in DOMAIN job : AsCompletedNext(p)
    \/ TrimReturn

Next == CoordinatorStep \/ WorkerStep \/ Rerun

Spec == Init /\ [][Next]_vars

SpecProgress == InitProgress /\ [][Next]_vars

SpecAnySegment == InitAnySegment /\ [][Next]_vars

\* The coordinating thread up to the end of the submission loop.  No worker
\* writes a variable the loop reads: the file of part n is written only by the
\* job of part n, which is submitted after the loop has looked for that file.
NextPlan == TrimStart \/ PlanPart

SpecPlan == InitPlan /\ [][NextPlan]_vars

\* The operating system schedules every thread: the coordinating thread and
\* the worker threads each take a step that stays possible, and every encoder
\* invocation terminates.  Whether the caller runs again is up to the caller.
SpecFair == Spec /\ WF_vars(CoordinatorStep) /\ WF_vars(WorkerStep)

NextKeyframe == AdjustCall

SpecKeyframe == InitKeyframe /\ [][NextKeyframe]_vars

\* ------------------------------------------------------------------ claims
\* ceil(dur / seg) for dur > 0, seg > 0: the least n with n * seg >= dur.
CeilDiv(dur, seg) == CHOOSE n \in 0..dur : n * seg >= dur /\ (n - 1) * seg < dur

PlanningDone == pc \in {"collect", "done"}

\* C1: for videoDuration > 0 and segmentDuration > 0 the run plans exactly
\* N = ceil(videoDuration / segmentDuration) >= 1 parts, the part numbers of
\* the output names are 1..N in order, each once, and the run returns N.
C1_PartCount ==
    (videoDuration > 0 /\ segmentDuration > 0) =>
        /\ pc \in {"plan", "collect", "done"} =>
              /\ numParts = CeilDiv(videoDuration, segmentDuration)
              /\ numParts >= 1
        /\ PlanningDone =>
              /\ Len(plans) = CeilDiv(videoDuration, segmentDuration)
              /\ \A k \in 1..Len(plans) : plans[k].part = k
        /\ pc = "done" => returned = CeilDiv(videoDuration, segmentDuration)

C1_Witness ==
    /\ pc = "done"
    /\ returned = 5
    /\ videoDuration % segmentDuration # 0
    /\ Len(plans) = 5

\* C2: every computed plan, except a final plan elongated after the callback
\* returned true, has end - start + padDuration = segmentDuration.
C2_UniformLength ==
    \A k \in 1..Len(plans) :
        ~plans[k].elongated =>
            plans[k].end - plans[k].start + plans[k].pad = segmentDuration

\* The ticks of [0, videoDuration) that plan k covers.
Covered(k) == {t \in 0..(videoDuration - 1) : plans[k].start <= t /\ t < plans[k].end}

\* The final plan overshot and was clamped to start + segmentDuration.
FinalClamped ==
    /\ Len(plans) = numParts
    /\ videoDuration - plans[numParts].start > segmentDuration
    /\ plans[numParts].end = plans[numParts].start + segmentDuration

\* C3: the ranges [start, end) of the plans of one run are pairwise
\* non-overlapping and cover [0, videoDuration); only the tail after a clamped
\* final segment may stay uncovered.
C3_Partition ==
    (PlanningDone /\ segmentDuration > 0) =>
        /\ \A j, k \in 1..Len(plans) : j # k => Covered(j) \cap Covered(k) = {}
        /\ \A t \in 0..(videoDuration - 1) :
              \/ \E k \in 1..Len(plans) : t \in Covered(k)
              \/ FinalClamped /\ t >= plans[numParts].end

\* C4: at most MAX_WORKERS export jobs are in flight at any time.
C4_BoundedInFlight == Cardinality(InFlight) <= MAX_WORKERS

C4_Witness ==
    /\ Cardinality(InFlight) = MAX_WORKERS
    /\ queue # <<>>

\* First index of keyframes at minimal distance from time.
FirstNearestIndex ==
    CHOOSE j \in 1..Len(keyframes) :
        /\ \A k \in 1..Len(keyframes) :
              Abs(keyframes[j] - time) <= Abs(keyframes[k] - time)
        /\ \A k \in 1..(j - 1) :
              Abs(keyframes[k] - time) > Abs(keyframes[j] - time)

\* C7: adjust_to_keyframe returns time when the list is empty, else the element
\* at minimal distance from time that comes first in the list.
C7_Nearest ==
    pc = "adjusted" =>
        IF keyframes = <<>> THEN adjusted = time
        ELSE adjusted = keyframes[FirstNearestIndex]

\* A tie between two different keyframes, the later one stored first.
C7_Witness ==
    /\ pc = "adjusted"
    /\ Len(keyframes) >= 2
    /\ \E j, k \in 1..Len(keyframes) :
          /\ j < k
          /\ keyframes[j] > keyframes[k]
          /\ Abs(keyframes[j] - time) = Abs(keyframes[k] - time)
          /\ adjusted = keyframes[j]

\* start, end and pad of the computed plans.
PlanTriples == [k \in 1..Len(plans) |-> <<plans[k].start, plans[k].end, plans[k].pad>>]

IsScenario(dur, seg) ==
    /\ videoDuration = dur
    /\ segmentDuration = seg
    /\ offset = 0
    /\ keyframes = <<>>

\* The rule of the final part: padDuration = segmentDuration - actualLength
\* and end = videoDuration when actualLength < segmentDuration, else no pad.
FinalPadRule ==
    LET last == plans[numParts]
        al   == videoDuration - last.start
    IN  IF al < segmentDuration
        THEN last.pad = segmentDuration - al /\ last.end = videoDuration
        ELSE last.pad = 0

\* C8 as stated: the final part follows FinalPadRule; 125/60 gives [0,60) 0,
\* [60,120) 0, [120,125) pad 35 and 60/60 gives [0,60) 0.
C8_Original ==
    (PlanningDone /\ segmentDuration > 0) =>
        /\ FinalPadRule
        /\ IsScenario(125, 60) =>
              PlanTriples = <<<<0, 60, 0>>, <<60, 120, 0>>, <<120, 125, 35>>>>
        /\ IsScenario(60, 60) => PlanTriples = <<<<0, 60, 0>>>>

\* C8 (amended): the final part follows FinalPadRule; 125/60 gives [0,60) 0,
\* [60,120) 0, [120,125) pad 55 (60 - 5) and 60/60 gives [0,60) 0.
C8_FinalPad ==
    (PlanningDone /\ segmentDuration > 0) =>
        /\ FinalPadRule
        /\ IsScenario(125, 60) =>
              PlanTriples = <<<<0, 60, 0>>, <<60, 120, 0>>, <<120, 125, 55>>>>
        /\ IsScenario(60, 60) => PlanTriples = <<<<0, 60, 0>>>>

C8_Witness ==
    /\ PlanningDone
    /\ IsScenario(125, 60)
    /\ plans[3].start = 120
    /\ plans[3].pad = 55

\* C9: the callback is called at most once, only for the final part and only
\* when segmentDuration < actualLength <= 1.1 * segmentDuration; then the end
\* is videoDuration if it returned true and start + segmentDuration if it
\* returned false or is absent; a larger overshoot is clamped without a call.
C9_Confirmation ==
    /\ Len(askCalls) <= 1
    /\ ~PlanningDone => askCalls = <<>>
    /\ (PlanningDone /\ segmentDuration > 0) =>
          LET last == plans[numParts]
              al   == videoDuration - last.start
              small == al > segmentDuration /\ al * 10 <= segmentDuration * 11
          IN  /\ askCalls # <<>> => small /\ askCalls = <<al>>
              /\ small =>
                    last.end = IF askMode = "yes" THEN videoDuration
                               ELSE last.start + segmentDuration
              /\ al * 10 > segmentDuration * 11 =>
                    /\ last.end = last.start + segmentDuration
                    /\ askCalls = <<>>

C9_Witness ==
    /\ PlanningDone
    /\ askMode = "no"
    /\ askCalls # <<>>
    /\ plans[numParts].end = plans[numParts].start + segmentDuration
    /\ plans[numParts].end < videoDuration

\* The future of part p holds a result (output_path, success, error).
HasResult(p) == job[p].state = "finished" /\ job[p].success \in BOOLEAN

\* Every submitted job has finished and was yielded once.
AllReported == \A p \in Range(tasks) : HasResult(p) /\ yielded[p] = 1

\* C5: under fair scheduling every submitted job yields one result, which the
\* coordinator consumes exactly once, and the run returns only after all
\* submitted jobs have completed.
C5_EveryJobReported ==
    /\ [](\A p \in DOMAIN job : yielded[p] <= 1 /\ (yielded[p] = 1 => HasResult(p)))
    /\ [](pc = "done" => AllReported /\ completedParts = Len(tasks))
    /\ (tasks # <<>>) ~> (pc = "done")

C5_Witness ==
    /\ pc = "done"
    /\ Len(tasks) = 5
    /\ AllReported
    /\ \E p, q \in Range(tasks) : job[p].success /\ ~job[q].success

\* Every output file existed when the current run started.
AllExistedAtStart == \A p \in DOMAIN filesAtStart : filesAtStart[p] # "none"

\* C6: a second run on the same inputs that finds the output of every part
\* submits no job, so calls neither export_part nor pad_with_black, and
\* returns the part count the first run returned.
C6_IdempotentRerun ==
    (run > 1 /\ AllExistedAtStart) =>
        /\ tasks = <<>>
        /\ \A p \in DOMAIN job : job[p].state = "none"
        /\ files = filesAtStart
        /\ pc = "done" => returned = prevReturned

C6_Witness ==
    /\ run = 2
    /\ AllExistedAtStart
    /\ pc = "done"
    /\ returned = 5
    /\ \E p \in DOMAIN files : files[p] = "cut"

\* Some finished job reports a failure.
SomeFailed == \E p \in DOMAIN job : job[p].state = "finished" /\ ~job[p].success

\* C10: a failed export neither aborts the run nor stops a sibling job: the
\* run never raises, and once a job has failed the run still reaches its
\* return with every submitted job reported and returns the part count.
C10_FailureIsolated ==
    /\ [](pc # "raised")
    /\ SomeFailed ~> (pc = "done" /\ AllReported /\ returned = numParts)

C10_Witness ==
    /\ pc = "done"
    /\ returned = numParts
    /\ \E p, q \in Range(tasks) :
          /\ job[p].error = "cut"
          /\ job[q].error = "pad"
    /\ \E p \in Range(tasks) : job[p].success

\* The calls progress_callback(k, numParts) for k = 1..n.
ProgressUpTo(n) == [k \in 1..n |-> <<k, numParts>>]

\* C11: when a progress callback is given, the coordinating thread calls it
\* once per dispatched job as the job's future is consumed: the completed
\* argument runs 1, 2, ..., d, never exceeds total, and total is always the
\* part count N, skipped parts included.
C11_Progress ==
    /\ [](pc \in {"collect", "done"} =>
            /\ progressCalls =
                  IF progressGiven THEN ProgressUpTo(completedParts) ELSE <<>>
            /\ completedParts <= Len(tasks)
            /\ Len(tasks) <= numParts
            /\ \A k \in 1..Len(progressCalls) :
                  progressCalls[k][1] <= progressCalls[k][2]
            /\ pc = "done" => completedParts = Len(tasks))
    /\ [][(progressCalls' # progressCalls /\ pc = "collect") =>
            \E p \in Range(tasks) :
                /\ job[p].state = "finished"
                /\ yielded[p] = 0
                /\ yielded'[p] = 1
                /\ progressCalls' =
                      Append(progressCalls, <<Len(progressCalls) + 1, numParts>>)]_vars

\* A run that skipped some parts and dispatched others, all reported.
C11_Witness ==
    /\ pc = "done"
    /\ progressGiven
    /\ Len(tasks) = 2
    /\ numParts = 5
    /\ progressCalls = <<<<1, 5>>, <<2, 5>>>>

\* C12: for every segmentDuration <= 0 the run ends by raising, never by
\* returning a part count, and dispatches no job and writes no output file.
C12_NonPositiveRaises ==
    segmentDuration <= 0 =>
        /\ pc # "done"
        /\ tasks = <<>>
        /\ files = filesAtStart

\* Plans of non-final parts that were submitted (their output did not exist).
SubmittedNonFinal == {k \in 1..Len(plans) : k < numParts /\ ~plans[k].skipped}

\* C13: when the snapped, shifted and clamped range of a non-final part i is
\* degenerate (start >= end or end > videoDuration), the submitted range is the
\* nominal [i * segmentDuration, min((i + 1) * segmentDuration, videoDuration)];
\* so no non-final job is submitted with start >= end.
C13_DegenerateFallback ==
    \A k \in SubmittedNonFinal :
        LET s == PartStart(k - 1, videoDuration, segmentDuration, offset, keyframes)
            e == PartEnd(s, videoDuration, segmentDuration)
        IN  /\ (s >= e \/ e > videoDuration) =>
                  /\ plans[k].start = (k - 1) * segmentDuration
                  /\ plans[k].end = Min2(k * segmentDuration, videoDuration)
            /\ plans[k].start < plans[k].end

\* C14: every submitted job, final or not, has 0 <= start < end <= videoDuration
\* and padDuration >= 0.
C14_JobRange ==
    \A k \in 1..Len(plans) :
        ~plans[k].skipped =>
            /\ 0 <= plans[k].start
            /\ plans[k].start < plans[k].end
            /\ plans[k].end <= videoDuration
            /\ plans[k].pad >= 0

\* The jobs whose future holds a result.
Finished == {p \in DOMAIN job : job[p].state = "finished"}

\* An encoder step of job p failed: the cut (export_part's subprocess exited
\* non-zero) or the encode of the padded clip.
EncoderStepFailed(p) == job[p].exc \in {"CalledProcessError", "EncoderError"}

\* C15: export_and_pad returns success = true exactly when the cut succeeded
\* and, if padDuration > 0, the pad also succeeded, so a padded segment whose
\* cut and filler encode both succeed is a success; when the cut fails it
\* returns success = false with the error and pad_with_black is not called.
C15_SuccessIffStepsSucceed ==
    \A p \in Finished :
        /\ job[p].success <=> ~EncoderStepFailed(p)
        /\ job[p].error = "cut" =>
              /\ ~job[p].success
              /\ job[p].exc = "CalledProcessError"
              /\ ~job[p].padRan

\* The jobs for which export_and_pad called pad_with_black and it returned.
PadReturned == {p \in Finished : job[p].padRan}

\* C16: pad_with_black replaces the target only after the padded clip has been
\* written to the temporary path: when padding fails the target still holds
\* the un-padded cut, unchanged, and the call returns (False, error) rather
\* than raising.
C16_FailedPadKeepsCut ==
    /\ [](/\ \A p \in PadReturned :
                /\ ~job[p].success => files[p] = "cut" /\ job[p].error = "pad"
                /\ files[p] = "padded" => job[p].success
          /\ pc # "raised")
    /\ [][\A p \in DOMAIN job :
             (job[p].state = "padding" /\ job'[p].state # "padding") =>
                 /\ job'[p].state = "finished"
                 /\ ~job'[p].success => files'[p] = files[p]]_vars

C16_Witness ==
    \E p \in PadReturned :
        /\ plans[p].pad > 0
        /\ filesAtStart[p] = "none"
        /\ files[p] = "cut"
        /\ job[p] = [state |-> "finished", success |-> FALSE, error |-> "pad",
                     exc |-> "NameError", padRan |-> TRUE]

\* C17: a segment reported as failed because padding failed leaves its
\* un-padded output file on disk; a later run on the same inputs finds the
\* file, treats the part as completed and never dispatches it again.
C17_FailedPadNotRetried ==
    \A p \in padFailedBefore :
        /\ files[p] = "cut"
        /\ p \notin Range(tasks)
        /\ job[p].state = "none"
        /\ Len(plans) >= p => plans[p].skipped

C17_Witness ==
    /\ run = 2
    /\ pc = "done"
    /\ \E p \in padFailedBefore :
          /\ Len(plans) >= p
          /\ plans[p].pad > 0
          /\ plans[p].skipped
          /\ files[p] = "cut"

====
